---- MODULE Spec2Model ----
(***************************************************************************)
(* Outline-to-path conversion (src/widgets/glyph.rs, path_for_glyph) and   *)
(* the two serializers of an edit session (src/copy_as_code.rs).           *)
(*                                                                         *)
(* The converter is modelled as a state machine that advances one loop     *)
(* iteration at a time; the serializers are single calls on a session.     *)
(* Rust Option values are sequences of length 0 (None) or 1 (Some).        *)
(* Coordinates are integer-valued: the f32 -> f64 widening of glyph.rs is   *)
(* lossless, and the code never computes with a coordinate, it only moves  *)
(* it from the input into the output.                                      *)
(***************************************************************************)
EXTENDS Integers, Sequences, FiniteSets, TLC

VARIABLES
    glyph,             \* the Glyph under conversion: [outline : Option<seq of contours>]
    debug_assertions,  \* build profile: TRUE when debug_assert! is compiled in
    pc,                \* position in path_for_glyph
    ci,                \* number of contours handed to add_contour so far
    idx,               \* add_contour: `idx` (1-based here, so it starts at 2)
    controls,          \* add_contour: `controls`, the pending control points
    close,             \* add_contour: `close`, Option<&ContourPoint>
    path,              \* the BezPath being built
    sub_start,         \* history: Len(path) when add_contour was last entered
    session,           \* the EditSession handed to the serializers
    call,              \* which serializer ran last ("none" before any call)
    fault,             \* whether the formatter / plist writer reported an error in that call
    result             \* Option: what that call returned

vars == <<glyph, debug_assertions, pc, ci, idx, controls, close, path, sub_start,
          session, call, fault, result>>

conv_vars == <<glyph, debug_assertions, pc, ci, idx, controls, close, path, sub_start>>
ser_vars == <<session, call, fault, result>>

(***************************************************************************)
(* Bounds of the explored inputs.                                          *)
(***************************************************************************)
MaxPoints == 4      \* points of a contour in a one-contour outline
MaxContours == 2    \* contours of an outline
MaxPathPoints == 4  \* points of the path in a one-path session
MaxPaths == 2       \* paths of a session

(***************************************************************************)
(* norad::glyph data: PointType, ContourPoint, Contour, Outline.           *)
(***************************************************************************)
PointType == {"Move", "Line", "Curve", "QCurve", "OffCurve"}

\* Coordinates of the i-th point of the c-th contour.  Every position of an
\* outline gets its own coordinates, so that an output primitive identifies the
\* input point it was made from; the first contour starts with the square
\* (0,0) (10,0) (10,10) (0,10).
Square == << <<0, 0>>, <<10, 0>>, <<10, 10>>, <<0, 10>> >>

XY(c, i) ==
    IF i <= Len(Square)
    THEN <<Square[i][1] + 100 * (c - 1), Square[i][2]>>
    ELSE <<100 * (c - 1) - 10 * (i - Len(Square)), 5>>

ContourPoint(c, i, t) == [x |-> XY(c, i)[1], y |-> XY(c, i)[2], typ |-> t]

\* Sum of a sequence of lengths, and the sum of its first c - 1 entries.
RECURSIVE SumTo(_, _)
SumTo(lens, n) == IF n = 0 THEN 0 ELSE SumTo(lens, n - 1) + lens[n]
Sum(lens) == SumTo(lens, Len(lens))

\* The outline whose c-th contour has lens[c] points, typed by ts in reading order.
OutlineOf(lens, ts) ==
    [c \in 1..Len(lens) |->
        [i \in 1..lens[c] |-> ContourPoint(c, i, ts[SumTo(lens, c - 1) + i])]]

\* Contour lengths of the outlines explored: none or one contour of up to
\* MaxPoints points, and 2..MaxContours contours (empty ones included) sharing
\* MaxPoints - 1 points.
OutlineShapes ==
    {lens \in UNION {[1..k -> 0..MaxPoints] : k \in 0..MaxContours} :
        Sum(lens) <= (IF Len(lens) <= 1 THEN MaxPoints ELSE MaxPoints - 1)}

(***************************************************************************)
(* kurbo::BezPath elements.  `controls` holds p1 (QuadTo) or p1, p2          *)
(* (CurveTo); `to` is the end point.                                       *)
(***************************************************************************)
PathEl(op, ctrl, to) == [op |-> op, controls |-> ctrl, to |-> to]

moveto(p, to) == Append(p, PathEl("MoveTo", << >>, to))
lineto(p, to) == Append(p, PathEl("LineTo", << >>, to))
quadto(p, a, to) == Append(p, PathEl("QuadTo", <<a>>, to))
curveto(p, a, b, to) == Append(p, PathEl("CurveTo", <<a, b>>, to))

Vec2(pt) == <<pt.x, pt.y>>

(***************************************************************************)
(* The closure add_curve: the walk's state is w = [ok, path, controls];    *)
(* ok = FALSE is the panic of the `_illegal` arm.                          *)
(***************************************************************************)
\* add_curve with the two control points of a cubic handed over in the wrong order
add_curve_swapped(w, to_point) ==
    CASE Len(w.controls) = 0 ->
            [ok |-> TRUE, path |-> lineto(w.path, to_point), controls |-> << >>]
      [] Len(w.controls) = 1 ->
            [ok |-> TRUE, path |-> quadto(w.path, w.controls[1], to_point),
             controls |-> << >>]
      [] Len(w.controls) = 2 ->
            [ok |-> TRUE, path |-> curveto(w.path, w.controls[2], w.controls[1], to_point),
             controls |-> << >>]
      [] OTHER -> [w EXCEPT !.ok = FALSE]

add_curve(w, to_point) ==
    CASE Len(w.controls) = 0 ->
            [ok |-> TRUE, path |-> lineto(w.path, to_point), controls |-> << >>]
      [] Len(w.controls) = 1 ->
            [ok |-> TRUE, path |-> quadto(w.path, w.controls[1], to_point),
             controls |-> << >>]
      [] Len(w.controls) = 2 ->
            [ok |-> TRUE, path |-> curveto(w.path, w.controls[1], w.controls[2], to_point),
             controls |-> << >>]
      [] OTHER -> [w EXCEPT !.ok = FALSE]

\* debug_assert!(cond): panics only when debug assertions are compiled in.
debug_assert(w, cond) == IF debug_assertions /\ ~cond THEN [w EXCEPT !.ok = FALSE] ELSE w

\* walk_point where a Move point inside the contour starts a new subpath
walk_point_moveto(w, next) ==
    CASE next.typ = "OffCurve" -> [w EXCEPT !.controls = Append(@, Vec2(next))]
      [] next.typ = "Line" ->
            LET a == debug_assert(w, w.controls = << >>)
            IN  IF a.ok THEN add_curve(a, Vec2(next)) ELSE a
      [] next.typ = "Curve" -> add_curve(w, Vec2(next))
      [] next.typ = "QCurve" -> add_curve(w, Vec2(next))
      [] next.typ = "Move" -> [w EXCEPT !.path = moveto(@, Vec2(next))]

\* One iteration of the while loop's match on next.typ.
walk_point(w, next) ==
    CASE next.typ = "OffCurve" -> [w EXCEPT !.controls = Append(@, Vec2(next))]
      [] next.typ = "Line" ->
            LET a == debug_assert(w, w.controls = << >>)
            IN  IF a.ok THEN add_curve(a, Vec2(next)) ELSE a
      [] next.typ = "Curve" -> add_curve(w, Vec2(next))
      [] next.typ = "QCurve" -> add_curve(w, Vec2(next))
      [] next.typ = "Move" -> debug_assert(w, FALSE)

\* enter_contour with `controls` kept from the previous contour
enter_contour_stale(before, points) ==
    [ok |-> TRUE, path |-> moveto(before.path, Vec2(points[1])),
     controls |-> before.controls]

\* Entry of add_contour for a non-empty contour: moveto, close, fresh controls.
\* `before` is the walk state the previous contour left behind.
enter_contour(before, points) ==
    [ok |-> TRUE, path |-> moveto(before.path, Vec2(points[1])), controls |-> << >>]

\* close_of with the test on the first point's type inverted
close_of_inverted(points) == IF points[1].typ = "Move" THEN <<points[1]>> ELSE << >>

close_of(points) == IF points[1].typ # "Move" THEN <<points[1]>> ELSE << >>

\* The tail of add_contour: `if let Some(to_close) = close.take()`.
close_contour(w, cl) == IF cl # << >> THEN add_curve(w, Vec2(cl[1])) ELSE w

(***************************************************************************)
(* The converter's steps.                                                  *)
(***************************************************************************)
W == [ok |-> TRUE, path |-> path, controls |-> controls]

HasOutline == glyph.outline # << >>
contours == glyph.outline[1]

\* let mut path = BezPath::new(); then the outline test.
PathForGlyph ==
    /\ pc = "start"
    /\ path' = << >>
    /\ pc' = IF HasOutline THEN "iter" ELSE "done"
    /\ UNCHANGED <<glyph, debug_assertions, ci, idx, controls, close, sub_start>>
    /\ UNCHANGED ser_vars

\* for_each hands the next contour to add_contour, which returns at once on
\* an empty contour and otherwise runs up to the while loop.
AddContour ==
    /\ pc = "iter"
    /\ ci < Len(contours)
    /\ ci' = ci + 1
    /\ sub_start' = Len(path)
    /\ LET points == contours[ci + 1]
       IN  IF points = << >>
           THEN /\ close' = << >>
                /\ UNCHANGED <<pc, idx, controls, path>>
           ELSE LET w == enter_contour(W, points)
                IN  /\ path' = w.path
                    /\ controls' = w.controls
                    /\ close' = close_of(points)
                    /\ idx' = 2
                    /\ pc' = "walk"
    /\ UNCHANGED <<glyph, debug_assertions>>
    /\ UNCHANGED ser_vars

\* One iteration of `while idx < contour.points.len()`.
WhileLoop ==
    /\ pc = "walk"
    /\ idx <= Len(contours[ci])
    /\ LET w == walk_point(W, contours[ci][idx])
       IN  /\ path' = w.path
           /\ controls' = w.controls
           /\ pc' = IF w.ok THEN "walk" ELSE "panic"
    /\ idx' = idx + 1
    /\ UNCHANGED <<glyph, debug_assertions, ci, close, sub_start>>
    /\ UNCHANGED ser_vars

\* The loop has ended: close the contour if a closing point was recorded.
CloseContour ==
    /\ pc = "walk"
    /\ idx > Len(contours[ci])
    /\ LET w == close_contour(W, close)
       IN  /\ path' = w.path
           /\ controls' = w.controls
           /\ pc' = IF w.ok THEN "iter" ELSE "panic"
    /\ close' = << >>
    /\ UNCHANGED <<glyph, debug_assertions, ci, idx, sub_start>>
    /\ UNCHANGED ser_vars

\* for_each is exhausted: path_for_glyph returns `path`.
ReturnPath ==
    /\ pc = "iter"
    /\ ci = Len(contours)
    /\ pc' = "done"
    /\ UNCHANGED <<glyph, debug_assertions, ci, idx, controls, close, path, sub_start>>
    /\ UNCHANGED ser_vars

(***************************************************************************)
(* add_contour as a function of one contour: the path it appends to an     *)
(* empty BezPath, or ok = FALSE when it panics.                            *)
(***************************************************************************)
RECURSIVE walk_from(_, _, _)
walk_from(w, points, i) ==
    IF ~w.ok \/ i > Len(points) THEN w
    ELSE walk_from(walk_point(w, points[i]), points, i + 1)

NewWalk == [ok |-> TRUE, path |-> << >>, controls |-> << >>]

add_contour(points) ==
    IF points = << >> THEN NewWalk
    ELSE LET w == walk_from(enter_contour(NewWalk, points), points, 2)
         IN  IF w.ok THEN close_contour(w, close_of(points)) ELSE w

(***************************************************************************)
(* Vocabulary of the properties.                                           *)
(***************************************************************************)
Max(S) == CHOOSE m \in S : \A n \in S : n <= m

Converting == HasOutline /\ pc \in {"iter", "walk", "done"} /\ ci >= 1
Finished == HasOutline /\ pc \in {"iter", "done"} /\ ci >= 1   \* contour ci fully handled
cur == contours[ci]
\* what the conversion of contour ci has appended so far
Sub == SubSeq(path, sub_start + 1, Len(path))
\* points of contour ci consumed by the walk
Seen == IF pc = "walk" THEN idx - 1 ELSE Len(cur)

WellFormed(points) ==
    /\ points # << >>
    /\ \A j \in 2..Len(points) :
          /\ points[j].typ # "Move"
          /\ points[j].typ = "Line" => points[j - 1].typ # "OffCurve"
    /\ \A j \in 3..Len(points) :
          ~(\A m \in (j - 2)..j : points[m].typ = "OffCurve")

OnCurveIdx(points, upto) == {j \in 2..upto : points[j].typ # "OffCurve"}
\* the start point or the last on-curve point before position j
PrevOn(points, j) == Max({1} \cup OnCurveIdx(points, j - 1))
\* coordinates of the points strictly between positions lo and hi, in input order
Between(points, lo, hi) == [m \in 1..(hi - lo - 1) |-> Vec2(points[lo + m])]
OpFor(n) == CASE n = 0 -> "LineTo" [] n = 1 -> "QuadTo" [] n = 2 -> "CurveTo"
\* the segment that ends at position j (j = Len + 1 stands for the closing segment)
SegmentAt(points, j) ==
    LET lo == PrevOn(points, j)
        to == IF j > Len(points) THEN points[1] ELSE points[j]
    IN  PathEl(OpFor(j - lo - 1), Between(points, lo, j), Vec2(to))
\* position of the k-th on-curve point after the first point
KthOn(points, k) ==
    CHOOSE j \in OnCurveIdx(points, Len(points)) :
        Cardinality(OnCurveIdx(points, j)) = k

AllLine(points) == \A j \in 1..Len(points) : points[j].typ = "Line"

(***************************************************************************)
(* Properties of the converter.                                            *)
(***************************************************************************)
OneContour == HasOutline /\ Len(contours) = 1
Returned == pc = "done"

\* C1: a closed contour of N Line-typed points converts to MoveTo(point[0]),
\* LineTo(point[1]) .. LineTo(point[N-1]), a closing LineTo(point[0]) and then a
\* ClosePath as the last primitive.
C1_ClosedPolygonEndsWithClosePath ==
    (Returned /\ OneContour /\ contours[1] # << >> /\ AllLine(contours[1])) =>
        LET points == contours[1]
            N == Len(points)
        IN  path = <<PathEl("MoveTo", << >>, Vec2(points[1]))>>
                   \o [j \in 1..(N - 1) |-> PathEl("LineTo", << >>, Vec2(points[j + 1]))]
                   \o <<PathEl("LineTo", << >>, Vec2(points[1])),
                        PathEl("ClosePath", << >>, Vec2(points[1]))>>

\* C2: for a well-formed contour the segments after the MoveTo are, in order, one
\* per on-curve point of points[1..] and then one closing segment to point[0] when
\* point[0] is not Move; each ends at its point, carries the OffCurve points seen
\* since the previous on-curve point in input order, and is LineTo / QuadTo /
\* CurveTo for 0 / 1 / 2 of them (Curve and QCurve alike); the pending buffer
\* holds exactly the OffCurve points not yet used, so it is empty after every
\* emitted segment.
C2_SegmentsFollowOnCurvePoints ==
    (Converting /\ cur # << >> /\ WellFormed(cur)) =>
        LET on == OnCurveIdx(cur, Seen)
            closed == cur[1].typ # "Move"
            n == Cardinality(on)
        IN  /\ Len(Sub) = 1 + n + (IF Finished /\ closed THEN 1 ELSE 0)
            /\ \A k \in 1..n : Sub[1 + k] = SegmentAt(cur, KthOn(cur, k))
            /\ (Finished /\ closed) => Sub[Len(Sub)] = SegmentAt(cur, Len(cur) + 1)
            /\ IF Finished /\ closed THEN controls = << >>
               ELSE controls = Between(cur, PrevOn(cur, Seen + 1), Seen + 1)
            /\ (Seen \in on \/ (Finished /\ closed)) => controls = << >>

C2_Witness ==
    /\ Returned /\ OneContour /\ WellFormed(contours[1])
    /\ Len(contours[1]) = 4
    /\ contours[1][4].typ = "QCurve"
    /\ path[2] = PathEl("CurveTo", <<Vec2(contours[1][2]), Vec2(contours[1][3])>>,
                        Vec2(contours[1][4]))
    /\ Len(path) = 3 /\ path[3] = PathEl("LineTo", << >>, Vec2(contours[1][1]))

\* C6: the path holds exactly one MoveTo per non-empty contour, as the first
\* primitive of that contour's subpath and at the contour's first point, and no
\* other MoveTo; an empty contour adds nothing, and a glyph without outline or
\* with no contours converts to the empty path.
MoveToIdx == {k \in 1..Len(path) : path[k].op = "MoveTo"}
NonEmptyUpTo(n) == {c \in 1..n : contours[c] # << >>}
KthMoveTo(k) == CHOOSE m \in MoveToIdx : Cardinality({i \in MoveToIdx : i <= m}) = k

C6_OneMoveToPerNonEmptyContour ==
    /\ (Returned /\ (~HasOutline \/ contours = << >>)) => path = << >>
    /\ (HasOutline /\ pc \in {"iter", "walk", "done"}) =>
          /\ Cardinality(MoveToIdx) = Cardinality(NonEmptyUpTo(ci))
          /\ \A c \in NonEmptyUpTo(ci) :
                path[KthMoveTo(Cardinality(NonEmptyUpTo(c)))].to = Vec2(contours[c][1])
    /\ (Converting /\ cur # << >>) =>
          /\ Sub # << >>
          /\ Sub[1] = PathEl("MoveTo", << >>, Vec2(cur[1]))
          /\ \A k \in 2..Len(Sub) : Sub[k].op # "MoveTo"
    /\ (Converting /\ pc = "iter" /\ cur = << >>) => Sub = << >>

C6_Witness ==
    /\ Returned /\ HasOutline /\ Len(contours) = 2
    /\ contours[1] # << >> /\ contours[2] # << >>
    /\ Cardinality(MoveToIdx) = 2
    /\ Len(path) >= 4
    /\ \E j \in 2..Len(contours[2]) : contours[2][j].typ = "Move"

\* C7 as stated: a contour of exactly one point emits only a MoveTo at that
\* point, whatever the point's type, and the conversion does not fail.
C7_OnePointOnlyMoveTo ==
    (OneContour /\ Len(contours[1]) = 1) =>
        /\ pc # "panic"
        /\ Returned => path = <<PathEl("MoveTo", << >>, Vec2(contours[1][1]))>>

\* C7 amended: a contour of exactly one point emits a MoveTo at that point,
\* followed by nothing when the point is Move and by one LineTo to the same
\* point otherwise; the conversion does not fail.
C7_OnePointContour ==
    /\ (Converting /\ Len(cur) = 1 /\ Finished) =>
          Sub = <<PathEl("MoveTo", << >>, Vec2(cur[1]))>>
                \o (IF cur[1].typ = "Move" THEN << >>
                    ELSE <<PathEl("LineTo", << >>, Vec2(cur[1]))>>)
    /\ (HasOutline /\ pc = "panic") => Len(cur) # 1

C7_Witness ==
    /\ Returned /\ OneContour /\ Len(contours[1]) = 1
    /\ contours[1][1].typ = "OffCurve"
    /\ path = <<PathEl("MoveTo", << >>, Vec2(contours[1][1])),
                PathEl("LineTo", << >>, Vec2(contours[1][1]))>>

\* C8: in every state of the walk the pending-control buffer holds at most 2
\* coordinates (a third consecutive OffCurve point fails the conversion instead
\* of being stored).
C8_AtMostTwoPending == Len(controls) <= 2

\* C9: no QuadTo or CurveTo ends at a Line-typed point of index >= 1 (a Line
\* point reached with pending controls fails the conversion).
C9_LinePointOnlyLineTo ==
    HasOutline =>
        \A k \in 1..Len(path) :
            path[k].op \in {"QuadTo", "CurveTo"} =>
                ~\E c \in 1..Len(contours) : \E j \in 2..Len(contours[c]) :
                    /\ contours[c][j].typ = "Line"
                    /\ Vec2(contours[c][j]) = path[k].to

\* C10: the converted path is the concatenation, in contour order, of the paths
\* of the contours converted alone; controls left pending by a contour are dropped
\* and every control of a segment is a point of that segment's own contour.
RECURSIVE ConcatAlone(_)
ConcatAlone(n) ==
    IF n = 0 THEN << >> ELSE ConcatAlone(n - 1) \o add_contour(contours[n]).path

C10_ContoursCompiledIndependently ==
    /\ (Finished) => path = ConcatAlone(ci)
    /\ Converting =>
          \A k \in 1..Len(Sub) : \A m \in 1..Len(Sub[k].controls) :
              \E j \in 1..Len(cur) : Sub[k].controls[m] = Vec2(cur[j])

C10_Witness ==
    /\ Returned /\ HasOutline /\ Len(contours) = 2
    /\ Len(contours[1]) = 2
    /\ contours[1][1].typ = "Move" /\ contours[1][2].typ = "OffCurve"
    /\ Len(contours[2]) = 1 /\ contours[2][1].typ = "Curve"
    /\ path = <<PathEl("MoveTo", << >>, Vec2(contours[1][1])),
                PathEl("MoveTo", << >>, Vec2(contours[2][1])),
                PathEl("LineTo", << >>, Vec2(contours[2][1]))>>

NoSession == [name |-> "", paths |-> << >>]

Init ==
    /\ \/ glyph = [outline |-> << >>]
       \/ \E lens \in OutlineShapes : \E ts \in [1..Sum(lens) -> PointType] :
             glyph = [outline |-> <<OutlineOf(lens, ts)>>]
    /\ debug_assertions \in BOOLEAN
    /\ pc = "start"
    /\ ci = 0
    /\ idx = 2
    /\ controls = << >>
    /\ close = << >>
    /\ path = << >>
    /\ sub_start = 0
    /\ session = NoSession
    /\ call = "none"
    /\ fault = FALSE
    /\ result = << >>

Next ==
    \/ PathForGlyph
    \/ AddContour
    \/ WhileLoop
    \/ CloseContour
    \/ ReturnPath

Spec == Init /\ [][Next]_vars
(***************************************************************************)
(* copy_as_code.rs: the edit session and its paths.  A Path exposes        *)
(* points() (each a kurbo Point and a crate::path::PointType) and          *)
(* is_closed().                                                            *)
(***************************************************************************)
PathPointType == {"OnCurve", "OnCurveSmooth", "OffCurve"}

\* Coordinates of the i-th point of the p-th path; g moves the whole session
\* away from the origin so that negative and three-digit values occur.  With
\* g = 0 the first path starts with the square (0,0) (10,0) (10,10) (0,10).
PathXY(g, p, i) ==
    LET o == g + (p - 1)
        q == XY(1, i)
    IN  [x |-> q[1] - 104 * o, y |-> q[2] - 3 * o]

\* The paths with lens[p] points each, typed by ts in reading order; cl[p] is
\* is_closed() of the p-th.
PathsOf(g, lens, ts, cl) ==
    [p \in 1..Len(lens) |->
        [points |-> [i \in 1..lens[p] |->
                        [point |-> PathXY(g, p, i), typ |-> ts[SumTo(lens, p - 1) + i]]],
         closed |-> cl[p]]]

\* Path lengths of the sessions explored: no path, one path of up to
\* MaxPathPoints points, or 2..MaxPaths paths sharing MaxPathPoints - 1 points.
SessionShapes ==
    {lens \in UNION {[1..k -> 0..MaxPathPoints] : k \in 0..MaxPaths} :
        Sum(lens) <= (IF Len(lens) <= 1 THEN MaxPathPoints ELSE MaxPathPoints - 1)}

SessionNames == {"a"}

(***************************************************************************)
(* Text.  A string is the sequence of its characters.                      *)
(***************************************************************************)
Digit == <<"0", "1", "2", "3", "4", "5", "6", "7", "8", "9">>
SP == " "
QUOTE == "\""

LINE == <<"L", "I", "N", "E">>
CURVE == <<"C", "U", "R", "V", "E">>
CURVE_SMOOTH == <<"C", "U", "R", "V", "E", " ", "S", "M", "O", "O", "T", "H">>
OFFCURVE == <<"O", "F", "F", "C", "U", "R", "V", "E">>

\* `{}` of an f64 holding an integer: the decimal digits, '-' first when negative.
RECURSIVE fmt_digits(_)
fmt_digits(n) ==
    IF n < 10 THEN <<Digit[n + 1]>>
    ELSE fmt_digits(n \div 10) \o <<Digit[(n % 10) + 1]>>

fmt_display(v) == IF v < 0 THEN <<"-">> \o fmt_digits(-v) ELSE fmt_digits(v)

(***************************************************************************)
(* impl From<&Path> for GlyphPlistPath.                                    *)
(***************************************************************************)
\* next_is_curve starting FALSE instead of looking at the last point
last_is_offcurve_nowrap(points) == FALSE

\* the initial value of next_is_curve
last_is_offcurve(points) ==
    IF points = << >> THEN FALSE ELSE points[Len(points)].typ = "OffCurve"

\* the `match p.typ` that picks ptyp
node_type(p, next_is_curve) ==
    CASE p.typ = "OnCurve" /\ next_is_curve -> CURVE
      [] p.typ = "OnCurve" -> LINE
      [] p.typ = "OnCurveSmooth" -> CURVE_SMOOTH
      [] p.typ = "OffCurve" -> OFFCURVE

\* format_node with the coordinates in the wrong order
format_node_yx(p, ptyp) ==
    <<QUOTE>> \o fmt_display(p.point.y) \o <<SP>> \o fmt_display(p.point.x)
              \o <<SP>> \o ptyp \o <<QUOTE>>

\* format!("\"{} {} {}\"", p.point.x, p.point.y, ptyp)
format_node(p, ptyp) ==
    <<QUOTE>> \o fmt_display(p.point.x) \o <<SP>> \o fmt_display(p.point.y)
              \o <<SP>> \o ptyp \o <<QUOTE>>

\* the map closure run over points()[i..], carrying next_is_curve
RECURSIVE map_nodes(_, _, _)
map_nodes(points, i, next_is_curve) ==
    IF i > Len(points) THEN << >>
    ELSE <<format_node(points[i], node_type(points[i], next_is_curve))>>
         \o map_nodes(points, i + 1, points[i].typ = "OffCurve")

closed_flag(src) == IF src.closed THEN 1 ELSE 0

GlyphPlistPath_from(src) ==
    [closed |-> closed_flag(src),
     nodes |-> map_nodes(src.points, 1, last_is_offcurve(src.points))]

(***************************************************************************)
(* make_glyphs_plist.  The returned bytes are represented by the           *)
(* GlyphsPastePlist they encode; `err` is plist::to_writer_binary failing.  *)
(***************************************************************************)
\* make_glyphs_plist without the early return on an empty list of paths
make_glyphs_plist_unguarded(s, err) ==
    LET paths == [p \in 1..Len(s.paths) |-> GlyphPlistPath_from(s.paths[p])]
    IN  IF err THEN << >>
        ELSE <<[glyph |-> s.name, layer |-> "", paths |-> paths]>>

make_glyphs_plist(s, err) ==
    LET paths == [p \in 1..Len(s.paths) |-> GlyphPlistPath_from(s.paths[p])]
    IN  IF paths = << >> THEN << >>
        ELSE IF err THEN << >>
        ELSE <<[glyph |-> s.name, layer |-> "", paths |-> paths]>>

(***************************************************************************)
(* make_code_string.  Path::bezier() lies outside these sources, so the     *)
(* statements append_path writes for a path are represented by the points  *)
(* of that path; `err` is append_path returning Err for some path.         *)
(***************************************************************************)
make_code_string(s, err) ==
    IF s.paths = << >> THEN << >>
    ELSE IF err THEN << >>
    ELSE <<[preamble |-> "let mut bez = BezPath::new();\n",
            appended |-> [p \in 1..Len(s.paths) |-> s.paths[p].points]]>>

MakeCodeString ==
    /\ \E err \in BOOLEAN :
          /\ fault' = err
          /\ result' = make_code_string(session, err)
    /\ call' = "code"
    /\ UNCHANGED session
    /\ UNCHANGED conv_vars

MakeGlyphsPlist ==
    /\ \E err \in BOOLEAN :
          /\ fault' = err
          /\ result' = make_glyphs_plist(session, err)
    /\ call' = "plist"
    /\ UNCHANGED session
    /\ UNCHANGED conv_vars

InitSer ==
    /\ \E lens \in SessionShapes : \E ts \in [1..Sum(lens) -> PathPointType] :
       \E cl \in [1..Len(lens) -> BOOLEAN] : \E g \in 0..1 : \E nm \in SessionNames :
          /\ (Sum(lens) = 0 => g = 0)
          /\ session = [name |-> nm, paths |-> PathsOf(g, lens, ts, cl)]
    /\ call = "none"
    /\ fault = FALSE
    /\ result = << >>
    /\ glyph = [outline |-> << >>]
    /\ debug_assertions = TRUE
    /\ pc = "start"
    /\ ci = 0
    /\ idx = 2
    /\ controls = << >>
    /\ close = << >>
    /\ path = << >>
    /\ sub_start = 0

NextSer ==
    \/ MakeCodeString
    \/ MakeGlyphsPlist

SpecSer == InitSer /\ [][NextSer]_vars
(***************************************************************************)
(* Properties of the serializers.                                          *)
(***************************************************************************)
PlistReturned == call = "plist" /\ result # << >>
plist == result[1]

\* Reading a node string back: its fields are separated by single spaces; the
\* type label is everything after the second space.
Spaces(str) == {k \in 1..Len(str) : str[k] = SP}
Min(S) == CHOOSE m \in S : \A n \in S : m <= n
Space1(str) == Min(Spaces(str))
Space2(str) == Min(Spaces(str) \ {Space1(str)})
HasThreeFields(str) == Cardinality(Spaces(str)) >= 2
Field1(str) == SubSeq(str, 1, Space1(str) - 1)
Field2(str) == SubSeq(str, Space1(str) + 1, Space2(str) - 1)
Field3(str) == SubSeq(str, Space2(str) + 1, Len(str))

DigitValue(ch) == (CHOOSE d \in 1..10 : Digit[d] = ch) - 1
IsDigits(str) ==
    /\ str # << >>
    /\ \A k \in 1..Len(str) : \E d \in 1..10 : Digit[d] = str[k]
    /\ Len(str) > 1 => str[1] # "0"
\* a decimal numeral as `{}` writes an integer: digits without leading zeros,
\* preceded by '-' for a negative value
IsNumeral(str) ==
    /\ str # << >>
    /\ IF str[1] = "-" THEN IsDigits(Tail(str)) /\ Tail(str) # <<"0">> ELSE IsDigits(str)
RECURSIVE DigitsValue(_)
DigitsValue(str) ==
    IF str = << >> THEN 0
    ELSE 10 * DigitsValue(SubSeq(str, 1, Len(str) - 1)) + DigitValue(str[Len(str)])
NumeralValue(str) == IF str[1] = "-" THEN 0 - DigitsValue(Tail(str)) ELSE DigitsValue(str)

Quoted(str) == Len(str) >= 2 /\ str[1] = QUOTE /\ str[Len(str)] = QUOTE
Unquote(str) == SubSeq(str, 2, Len(str) - 1)

\* the point before i in the list, the last point for the first one
Predecessor(points, i) == IF i = 1 THEN points[Len(points)] ELSE points[i - 1]

LabelOf(points, i) ==
    CASE points[i].typ = "OffCurve" -> OFFCURVE
      [] points[i].typ = "OnCurveSmooth" -> CURVE_SMOOTH
      [] points[i].typ = "OnCurve" ->
            IF Predecessor(points, i).typ = "OffCurve" THEN CURVE ELSE LINE

\* str reads "x y TYPE" for point pt with label lab and holds nothing else
ReadsAs(str, pt, lab) ==
    /\ HasThreeFields(str)
    /\ IsNumeral(Field1(str)) /\ NumeralValue(Field1(str)) = pt.point.x
    /\ IsNumeral(Field2(str)) /\ NumeralValue(Field2(str)) = pt.point.y
    /\ Field3(str) = lab

\* C3: in the interchange form an OffCurve point is labelled OFFCURVE, an
\* OnCurveSmooth point CURVE SMOOTH whatever precedes it, and an OnCurve point
\* CURVE if and only if the previous point of the list (the last point, for the
\* first one) is OffCurve, and LINE otherwise.
C3_NodeTypeFromPredecessor ==
    PlistReturned =>
        \A p \in 1..Len(session.paths) :
            LET points == session.paths[p].points
                nodes == plist.paths[p].nodes
            IN  /\ Len(nodes) = Len(points)
                /\ \A i \in 1..Len(points) :
                      /\ HasThreeFields(nodes[i])
                      /\ Quoted(nodes[i])
                      /\ Field3(Unquote(nodes[i])) = LabelOf(points, i)

C3_Witness ==
    /\ PlistReturned
    /\ Len(session.paths) = 1
    /\ Len(session.paths[1].points) = 3
    /\ session.paths[1].points[1].typ = "OffCurve"
    /\ session.paths[1].points[2].typ = "OffCurve"
    /\ session.paths[1].points[3].typ = "OnCurve"
    /\ Field3(Unquote(plist.paths[1].nodes[3])) = CURVE

\* C4 as stated: the record of a path has closed = 1 when is_closed() and 0
\* otherwise and one node string per point, in point order, whose text is
\* exactly "x y TYPE" with no other characters in the string.
C4_NodeTextIsXYType ==
    PlistReturned =>
        /\ Len(plist.paths) = Len(session.paths)
        /\ \A p \in 1..Len(session.paths) :
              LET src == session.paths[p]
                  rec == plist.paths[p]
              IN  /\ rec.closed = (IF src.closed THEN 1 ELSE 0)
                  /\ Len(rec.nodes) = Len(src.points)
                  /\ \A i \in 1..Len(src.points) :
                        ReadsAs(rec.nodes[i], src.points[i], LabelOf(src.points, i))

\* C4 amended: as stated, except that the text of a node string is "x y TYPE"
\* enclosed in a pair of double-quote characters, which are part of the string.
C4_NodeTextIsQuotedXYType ==
    PlistReturned =>
        /\ Len(plist.paths) = Len(session.paths)
        /\ \A p \in 1..Len(session.paths) :
              LET src == session.paths[p]
                  rec == plist.paths[p]
              IN  /\ rec.closed = (IF src.closed THEN 1 ELSE 0)
                  /\ Len(rec.nodes) = Len(src.points)
                  /\ \A i \in 1..Len(src.points) :
                        /\ Quoted(rec.nodes[i])
                        /\ ReadsAs(Unquote(rec.nodes[i]), src.points[i],
                                   LabelOf(src.points, i))

C4_Witness ==
    /\ PlistReturned
    /\ Len(session.paths) = 1
    /\ session.paths[1].closed
    /\ plist.paths[1].closed = 1
    /\ plist.paths[1].nodes =
          << <<QUOTE, "0", " ", "0", " ">> \o LINE \o <<QUOTE>>,
             <<QUOTE, "1", "0", " ", "0", " ">> \o LINE \o <<QUOTE>>,
             <<QUOTE, "1", "0", " ", "1", "0", " ">> \o LINE \o <<QUOTE>>,
             <<QUOTE, "0", " ", "1", "0", " ">> \o LINE \o <<QUOTE>> >>

\* C5: either serializer returns None on a session without paths and Some on a
\* session with a path unless formatting / serialization fails; the call leaves
\* the session as it was, and calling again without a fault gives the same result.
C5_NoneIffNoPaths ==
    [][/\ session' = session
       /\ session.paths = << >> => result' = << >>
       /\ (session.paths # << >> /\ ~fault') => result' # << >>
       /\ (call' = call /\ ~fault /\ ~fault') => result' = result]_vars

C5_Witness ==
    /\ call = "plist"
    /\ session.paths = << >>
    /\ result = << >>
====
